---- MODULE Spec2Model ----
(***************************************************************************)
(* Multi-source consensus engine of FinBot:                                *)
(*   src/src/validators/multi_source_validator.py  (MultiSourceValidator)  *)
(*   src/src/adapters/base_adapter.py              (BaseDataAdapter)       *)
(*                                                                         *)
(* Numbers are exact rationals <<n, d>> in lowest terms with d > 0; the    *)
(* float NaN of pandas is the pair <<0, 0>>.  A DataFrame is a record      *)
(* [index, columns, val]: the row labels in order, the column names, and   *)
(* the cell values val[t][c].                                              *)
(***************************************************************************)
EXTENDS Integers, Sequences, FiniteSets, TLC

\* ------------------------------------------------------------- bounds
\* Timestamps of the requested window are 1..MaxT.
MaxT == 2
\* At most MaxAdapters adapters are configured on a validator.
MaxAdapters == 3
\* Lists of more than MaxGapSources sources hold full-window series only.
MaxGapSources == 2

\* ------------------------------------------------------------ numbers
Abs(n) == IF n < 0 THEN -n ELSE n

RECURSIVE GCD(_, _)
GCD(a, b) == IF b = 0 THEN a ELSE GCD(b, a % b)

NaN == <<0, 0>>
IsNaN(x) == x[2] = 0

Norm(n, d) ==
    IF d = 0 THEN NaN
    ELSE LET g == GCD(Abs(n), Abs(d))
             s == IF d < 0 THEN -1 ELSE 1
         IN  <<(s * n) \div g, (s * d) \div g>>

R(n) == <<n, 1>>
RAdd(x, y) == IF IsNaN(x) \/ IsNaN(y) THEN NaN
              ELSE Norm(x[1] * y[2] + y[1] * x[2], x[2] * y[2])
RSub(x, y) == IF IsNaN(x) \/ IsNaN(y) THEN NaN
              ELSE Norm(x[1] * y[2] - y[1] * x[2], x[2] * y[2])
RMul(x, y) == IF IsNaN(x) \/ IsNaN(y) THEN NaN
              ELSE Norm(x[1] * y[1], x[2] * y[2])
\* Division by zero is not defined here: callers guard it.
RDiv(x, y) == IF IsNaN(x) \/ IsNaN(y) THEN NaN
              ELSE Norm(x[1] * y[2], x[2] * y[1])
RAbs(x) == <<Abs(x[1]), x[2]>>
\* Comparisons with NaN are false, as in IEEE arithmetic.
RLt(x, y) == ~IsNaN(x) /\ ~IsNaN(y) /\ x[1] * y[2] < y[1] * x[2]
RLe(x, y) == ~IsNaN(x) /\ ~IsNaN(y) /\ x[1] * y[2] <= y[1] * x[2]
RMin(x, y) == IF RLt(y, x) THEN y ELSE x
RMax(x, y) == IF RLt(x, y) THEN y ELSE x

RECURSIVE RSum(_)
RSum(s) == IF s = <<>> THEN R(0) ELSE RAdd(s[1], RSum(Tail(s)))

\* np.mean of a non-empty list
RMean(s) == RDiv(RSum(s), R(Len(s)))

RECURSIVE Bisect(_, _, _)
Bisect(n, lo, hi) ==
    IF lo = hi THEN lo
    ELSE LET mid == (lo + hi + 1) \div 2
         IN  IF mid * mid <= n THEN Bisect(n, mid, hi) ELSE Bisect(n, lo, mid - 1)
\* floor(sqrt(n)) for 0 <= n <= 1000000
ISqrt(n) == Bisect(n, 0, 1000)

Lcm(a, b) == (a \div GCD(a, b)) * b

\* ---------------------------------------------------------- sequences
Range(s) == {s[i] : i \in DOMAIN s}

RECURSIVE SortedSeq(_)
\* sorted(set): the elements of a finite set of integers, ascending
SortedSeq(S) ==
    IF S = {} THEN <<>>
    ELSE LET m == CHOOSE x \in S : \A y \in S : x <= y
         IN  <<m>> \o SortedSeq(S \ {m})

RECURSIVE SelectIdx(_, _)
\* the elements of sequence s, in order, that lie in the set S
SelectIdx(s, S) ==
    IF s = <<>> THEN <<>>
    ELSE (IF s[1] \in S THEN <<s[1]>> ELSE <<>>) \o SelectIdx(Tail(s), S)

RECURSIVE InsertSorted(_, _)
InsertSorted(x, s) ==
    IF s = <<>> THEN <<x>>
    ELSE IF RLe(x, s[1]) THEN <<x>> \o s
    ELSE <<s[1]>> \o InsertSorted(x, Tail(s))

RECURSIVE SortRat(_)
SortRat(s) == IF s = <<>> THEN <<>> ELSE InsertSorted(s[1], SortRat(Tail(s)))

\* --------------------------------------------------------- DataFrames
OHLCV == <<"Open", "High", "Low", "Close", "Volume">>

\* pd.DataFrame(): no rows, no columns
EmptyDF == [index |-> <<>>, columns |-> {}, val |-> <<>>]

\* DataFrame.empty: some axis has length 0
IsEmptyDF(df) == df.index = <<>> \/ df.columns = {}

\* DataFrame.reindex(dates): rows of `dates`, a row the frame lacks is all NaN
reindex(df, dates) ==
    [index   |-> dates,
     columns |-> df.columns,
     val     |-> [t \in Range(dates) |->
                    IF t \in Range(df.index) THEN df.val[t]
                    ELSE [c \in df.columns |-> NaN]]]

\* DataFrame.dropna(): the rows without any NaN cell
dropna(df) ==
    LET keep == {t \in Range(df.index) : \A c \in df.columns : ~IsNaN(df.val[t][c])}
    IN  [index   |-> SelectIdx(df.index, keep),
         columns |-> df.columns,
         val     |-> [t \in keep |-> df.val[t]]]

\* Index.intersection: the labels of `a` that `b` has too, in order
IndexIntersection(a, b) == SelectIdx(a, Range(b))

\* ------------------------------------------------- adapters and series
\* Adapter classes: the two concrete BaseDataAdapter subclasses and one
\* further subclass standing for any other provider.
AdapterClasses == {"YFinanceAdapter", "AlphaVantageAdapter", "CustomAdapter"}

\* get_source_reliability(): source_info.reliability_score, in units of 0.05
get_source_reliability(cls) ==
    CASE cls = "YFinanceAdapter"     -> Norm(17, 20)
      [] cls = "AlphaVantageAdapter" -> Norm(18, 20)
      [] cls = "UnratedAdapter"      -> R(0)
      [] OTHER                       -> Norm(10, 20)

Timestamps == 1..MaxT

\* What a provider reports.  "steady" closes 100, 101, ...; "near" closes
\* 101, 102, ... and has no volume at timestamp 2; "spiky" closes 150 at odd
\* timestamps and 100 at even ones.
Profiles == {"steady", "near", "spiky"}

CloseOf(p, t) ==
    CASE p = "steady"    -> 99 + t
      [] p = "near"      -> 100 + t
      [] p = "worthless" -> 0
      [] OTHER           -> IF t % 2 = 1 THEN 150 ELSE 100

BarOf(p, t) ==
    LET c == CloseOf(p, t)
    IN  [col \in Range(OHLCV) |->
            CASE col = "Open"   -> R(c)
              [] col = "High"   -> R(c + 1)
              [] col = "Low"    -> R(c - 1)
              [] col = "Close"  -> R(c)
              [] OTHER          -> IF p = "near" /\ t = 2 THEN NaN ELSE R(10 * t)]

\* The series of profile p with bars at the timestamps of `mask`
SeriesOf(p, mask) ==
    [index   |-> SortedSeq(mask),
     columns |-> Range(OHLCV),
     val     |-> [t \in mask |-> BarOf(p, t)]]

SeriesPool == {SeriesOf(p, mask) : p \in Profiles, mask \in (SUBSET Timestamps) \ {{}}}

\* -------------------------------------------- BaseDataAdapter.validate_data
\* data.isnull().sum().sum()
MissingCount(df) ==
    Cardinality({tc \in Range(df.index) \X df.columns : IsNaN(df.val[tc[1]][tc[2]])})

\* data[c] as the sequence of its cells in row order
ColumnOf(df, c) == [i \in 1..Len(df.index) |-> df.val[df.index[i]][c]]

\* data['Close'].pct_change().dropna(): the positions i with a defined return
\* from row i to row i+1 (0/0 is NaN and dropped, x/0 is infinite and kept)
DefinedReturns(close) ==
    {i \in 1..(Len(close) - 1) :
        /\ ~IsNaN(close[i]) /\ ~IsNaN(close[i + 1])
        /\ ~(close[i][1] = 0 /\ close[i + 1][1] = 0)}

\* abs(returns) > 0.2
IsExtremeReturn(prev, cur) ==
    IF prev[1] = 0 THEN TRUE
    ELSE RLt(Norm(1, 5), RAbs(RSub(RDiv(cur, prev), R(1))))

\* The four checks of a non-empty frame, as the deduction each takes in tenths
MissingDeduction(df) ==
    LET cells == Len(df.index) * Cardinality(df.columns)
        miss  == MissingCount(df)
    IN  IF miss * 10 > cells THEN 3          \* missing_pct > 0.1: error
        ELSE IF miss * 20 > cells THEN 1     \* missing_pct > 0.05: warning
        ELSE 0

InvalidPriceDeduction(df) ==
    IF "Close" \in df.columns
       /\ \E t \in Range(df.index) : RLe(df.val[t]["Close"], R(0))
    THEN 4 ELSE 0

InconsistentDeduction(df) ==
    IF {"High", "Low", "Close"} \subseteq df.columns
       /\ \E t \in Range(df.index) : RLt(df.val[t]["High"], df.val[t]["Low"])
    THEN 5 ELSE 0

\* Mutant: many extreme returns add to the score
ExtremeReturnsRewarded(df) ==
    IF "Close" \notin df.columns THEN 0
    ELSE LET close   == ColumnOf(df, "Close")
             rets    == DefinedReturns(close)
             extreme == {i \in rets : IsExtremeReturn(close[i], close[i + 1])}
         IN  IF Cardinality(extreme) * 20 > Cardinality(rets) THEN -1 ELSE 0

ExtremeDeduction(df) ==
    IF "Close" \notin df.columns THEN 0
    ELSE LET close   == ColumnOf(df, "Close")
             rets    == DefinedReturns(close)
             extreme == {i \in rets : IsExtremeReturn(close[i], close[i + 1])}
         IN  IF Cardinality(extreme) * 20 > Cardinality(rets) THEN 1 ELSE 0

\* quality_score before the floor at 0, in tenths
RawScore(df) ==
    IF IsEmptyDF(df) THEN 0
    ELSE 10 - MissingDeduction(df) - InvalidPriceDeduction(df)
            - InconsistentDeduction(df) - ExtremeDeduction(df)

\* Mutant: a missing ratio above 0.05 is already an error
ErrorsFromWarnings(df) ==
    IF IsEmptyDF(df) THEN <<"No data returned">>
    ELSE (IF MissingDeduction(df) # 0 THEN <<"High missing data percentage">> ELSE <<>>)
         \o (IF InvalidPriceDeduction(df) # 0 THEN <<"Invalid prices found">> ELSE <<>>)
         \o (IF InconsistentDeduction(df) # 0 THEN <<"Inconsistent high/low prices">>
             ELSE <<>>)

\* The errors list, in the order the checks append to it
Errors(df) ==
    IF IsEmptyDF(df) THEN <<"No data returned">>
    ELSE (IF MissingDeduction(df) = 3 THEN <<"High missing data percentage">> ELSE <<>>)
         \o (IF InvalidPriceDeduction(df) # 0 THEN <<"Invalid prices found">> ELSE <<>>)
         \o (IF InconsistentDeduction(df) # 0 THEN <<"Inconsistent high/low prices">>
             ELSE <<>>)

\* The warnings list
Warnings(df) ==
    IF IsEmptyDF(df) THEN <<>>
    ELSE (IF MissingDeduction(df) = 1 THEN <<"Some missing data">> ELSE <<>>)
         \o (IF ExtremeDeduction(df) # 0 THEN <<"Many extreme returns">> ELSE <<>>)

HasErrors(df) == Errors(df) # <<>>

\* quality_score is a double.  A score is <<tenths, off>>: the double nearest to
\* tenths/10 plus off units of 2^-55.  `quality_score -= d/10` in IEEE-754
\* double arithmetic; d = 0 stands for a check that takes nothing.
FloatSub(s, d) ==
    CASE s = <<7, 0>>   /\ d = 4 -> <<3, -2>>     \* 0.7 - 0.4 = 0.29999999999999993
      [] s = <<7, 0>>   /\ d = 5 -> <<2, -2>>     \* 0.7 - 0.5 = 0.19999999999999996
      [] s = <<6, 0>>   /\ d = 5 -> <<1, -1>>     \* 0.6 - 0.5 = 0.09999999999999998
      [] s = <<4, 0>>   /\ d = 1 -> <<3, 2>>      \* 0.4 - 0.1 = 0.30000000000000004
      [] s = <<3, -2>>  /\ d = 1 -> <<2, -3>>     \* ... - 0.1 = 0.19999999999999993
      [] s = <<2, -2>>  /\ d = 1 -> <<1, -2>>     \* ... - 0.1 = 0.09999999999999995
      [] OTHER                   -> <<s[1] - d, s[2]>>

\* quality_score as lines 92-127 leave it
FloatScore(df) ==
    IF IsEmptyDF(df) THEN <<0, 0>>
    ELSE FloatSub(FloatSub(FloatSub(FloatSub(<<10, 0>>, MissingDeduction(df)),
                                    InvalidPriceDeduction(df)),
                           InconsistentDeduction(df)),
                  ExtremeDeduction(df))

\* quality_score >= k/10
ScoreAtLeast(s, k) == s[1] > k \/ (s[1] = k /\ s[2] >= 0)

QualityLevel(s) ==
    IF ScoreAtLeast(s, 9) THEN "excellent"
    ELSE IF ScoreAtLeast(s, 7) THEN "good"
    ELSE IF ScoreAtLeast(s, 5) THEN "fair"
    ELSE IF ScoreAtLeast(s, 3) THEN "poor"
    ELSE "unknown"

\* quality_score is the score to the tenth; score_offset is what the double
\* differs from it by, in units of 2^-55 (max(0.0, .) floors both)
validate_data(df) ==
    LET errors        == Errors(df)
        quality_score == FloatScore(df)
        tenths        == RawScore(df)
    IN  [is_valid      |-> Len(errors) = 0,
         quality_score |-> Norm(IF tenths < 0 THEN 0 ELSE tenths, 10),
         score_offset  |-> IF ScoreAtLeast(quality_score, 0) THEN quality_score[2] ELSE 0,
         quality_level |-> QualityLevel(quality_score),
         errors        |-> errors,
         warnings      |-> Warnings(df)]

\* ------------------------------------------------------ DataSourceResult
\* `adapter` is the position of the adapter in the validator's list, `cls` its
\* class name (adapter.__class__.__name__).
DataSourceResult(a, cls, data) ==
    [adapter           |-> a,
     cls               |-> cls,
     data              |-> data,
     validation_result |-> validate_data(data),
     weight            |-> get_source_reliability(cls)]

\* ------------------------------------------------------------ exceptions
\* A call that raises yields [raised |-> <exception class>] instead of a value.
Raise(e) == [raised |-> e]
Raised(x) == "raised" \in DOMAIN x

\* ---------------------------------------------------------- Python dicts
\* A dict built by assigning d[key(r)] = value(r) for r in order: `keys` are the
\* distinct keys in order of first insertion, `at` the value assigned last.
RECURSIVE DistinctInOrder(_, _)
DistinctInOrder(s, seen) ==
    IF s = <<>> THEN <<>>
    ELSE IF s[1] \in seen THEN DistinctInOrder(Tail(s), seen)
    ELSE <<s[1]>> \o DistinctInOrder(Tail(s), seen \cup {s[1]})

LastWithName(srs, name) ==
    srs[CHOOSE i \in DOMAIN srs :
            /\ srs[i].cls = name
            /\ \A j \in DOMAIN srs : srs[j].cls = name => j <= i]

\* The key of a source in every dict of the validator: its adapter's class name
SourceKey(srs, i) == srs[i].cls

DictKeys(srs) == DistinctInOrder([i \in DOMAIN srs |-> SourceKey(srs, i)], {})

EmptyDict == [keys |-> <<>>, at |-> <<>>]

\* Mutant: every source is laid on the whole window, an absent row filled with 0
AlignZeroFilled(srs) ==
    LET window == SortedSeq(Timestamps)
        filled(df) == [index   |-> window,
                       columns |-> df.columns,
                       val     |-> [t \in Range(window) |->
                                      IF t \in Range(df.index) THEN df.val[t]
                                      ELSE [c \in df.columns |-> R(0)]]]
    IN  [keys |-> DictKeys(srs),
         at   |-> [k \in Range(DictKeys(srs)) |-> filled(LastWithName(srs, k).data)]]

\* ------------------------------------- MultiSourceValidator._align_data_sources
_align_data_sources(srs) ==
    LET all_dates == UNION {Range(srs[i].data.index) : i \in DOMAIN srs}
    IN  IF all_dates = {} THEN EmptyDict
        ELSE LET common_dates == SortedSeq(all_dates)
                 keys == DictKeys(srs)
             IN  [keys |-> keys,
                  at   |-> [k \in Range(keys) |->
                              reindex(LastWithName(srs, k).data, common_dates)]]

\* The frames of a dict in key order
DictValues(d) == [i \in DOMAIN d.keys |-> d.at[d.keys[i]]]

\* consensus_df.dropna() of the frame with the first aligned frame's index and,
\* for each OHLCV column the first frame has, the cell given by Cell(t, column)
ConsensusFrame(aligned, Cell(_, _)) ==
    LET first == aligned.at[aligned.keys[1]]
        cols  == Range(OHLCV) \cap first.columns
    IN  dropna([index   |-> first.index,
                columns |-> cols,
                val     |-> [t \in Range(first.index) |->
                               [c \in cols |-> Cell(t, c)]]])

\* ------------------------------ MultiSourceValidator._weighted_average_consensus
_weighted_average_consensus(aligned, srs) ==
    IF aligned.keys = <<>> THEN EmptyDF
    ELSE
    LET keys         == DictKeys(srs)
        weights      == [k \in Range(keys) |-> LastWithName(srs, k).weight]
        total_weight == RSum([i \in DOMAIN keys |-> weights[keys[i]]])
    IN  IF total_weight = R(0) THEN Raise("ZeroDivisionError")
        ELSE
        LET normalized_weights == [k \in Range(keys) |-> RDiv(weights[k], total_weight)]
            having(c) == SelectIdx(aligned.keys, {k \in Range(aligned.keys) :
                                                    c \in aligned.at[k].columns})
            Cell(t, c) ==
                RSum([i \in DOMAIN having(c) |->
                        RMul(aligned.at[having(c)[i]].val[t][c],
                             normalized_weights[having(c)[i]])])
        IN  ConsensusFrame(aligned, Cell)

\* Series.median(): of the values that are not NaN; NaN when there are none
Median(vals) ==
    LET present == SelectIdx(vals, {v \in Range(vals) : ~IsNaN(v)})
        sorted  == SortRat(present)
        n       == Len(sorted)
    IN  IF n = 0 THEN NaN
        ELSE IF n % 2 = 1 THEN sorted[(n + 1) \div 2]
        ELSE RDiv(RAdd(sorted[n \div 2], sorted[n \div 2 + 1]), R(2))

\* -------------------------------------- MultiSourceValidator._majority_consensus
_majority_consensus(aligned, srs) ==
    IF aligned.keys = <<>> THEN EmptyDF
    ELSE
    LET having(c) == SelectIdx(aligned.keys, {k \in Range(aligned.keys) :
                                                c \in aligned.at[k].columns})
        Cell(t, c) ==
            Median([i \in DOMAIN having(c) |-> aligned.at[having(c)[i]].val[t][c]])
    IN  ConsensusFrame(aligned, Cell)

\* Mutant: the last of the maximal elements
MaxByQualityLast(srs) ==
    srs[CHOOSE i \in DOMAIN srs :
            /\ \A j \in DOMAIN srs :
                  RLe(srs[j].validation_result.quality_score,
                      srs[i].validation_result.quality_score)
            /\ \A j \in DOMAIN srs :
                  j > i => RLt(srs[j].validation_result.quality_score,
                               srs[i].validation_result.quality_score)]

\* max(source_results, key=quality_score): the first of the maximal elements
MaxByQuality(srs) ==
    srs[CHOOSE i \in DOMAIN srs :
            /\ \A j \in DOMAIN srs :
                  RLe(srs[j].validation_result.quality_score,
                      srs[i].validation_result.quality_score)
            /\ \A j \in DOMAIN srs :
                  j < i => RLt(srs[j].validation_result.quality_score,
                               srs[i].validation_result.quality_score)]

\* ------------------------------- MultiSourceValidator._highest_quality_consensus
_highest_quality_consensus(aligned, srs) ==
    IF srs = <<>> THEN EmptyDF
    ELSE MaxByQuality(srs).data

\* Mutant: the median keeps the lower of the two middle values of an even count
LowerMedian(vals) ==
    LET present == SelectIdx(vals, {v \in Range(vals) : ~IsNaN(v)})
        sorted  == SortRat(present)
        n       == Len(sorted)
    IN  IF n = 0 THEN NaN ELSE sorted[(n + 1) \div 2]

MedianWithoutAveraging(aligned, srs) ==
    IF aligned.keys = <<>> THEN EmptyDF
    ELSE
    LET having(c) == SelectIdx(aligned.keys, {k \in Range(aligned.keys) :
                                                c \in aligned.at[k].columns})
        Cell(t, c) ==
            LowerMedian([i \in DOMAIN having(c) |-> aligned.at[having(c)[i]].val[t][c]])
    IN  ConsensusFrame(aligned, Cell)

\* ---------------------------------------- MultiSourceValidator._median_consensus
_median_consensus(aligned, srs) == _majority_consensus(aligned, srs)

\* ------------------------------------------------------- Series.corr
RECURSIVE LcmDen(_)
LcmDen(s) == IF s = <<>> THEN 1 ELSE Lcm(s[1][2], LcmDen(Tail(s)))

RECURSIVE ISum(_)
ISum(s) == IF s = <<>> THEN 0 ELSE s[1] + ISum(Tail(s))

RECURSIVE SeqGcd(_)
SeqGcd(s) == IF s = <<>> THEN 0 ELSE GCD(Abs(s[1]), SeqGcd(Tail(s)))

\* Correlation does not change when a series is scaled by a positive factor or
\* shifted: the rationals are brought to small integers first.
Reduced(s) ==
    LET L    == LcmDen(s)
        ints == [i \in DOMAIN s |-> s[i][1] * (L \div s[i][2])]
        m    == CHOOSE v \in Range(ints) : \A w \in Range(ints) : v <= w
        sh   == [i \in DOMAIN s |-> ints[i] - m]
        g    == SeqGcd(sh)
    IN  IF g = 0 THEN sh ELSE [i \in DOMAIN s |-> sh[i] \div g]

\* abs(xs.corr(ys)), the absolute Pearson correlation over the positions where
\* both are present, to three decimals; NaN with fewer than two such positions
\* or when either side is constant there
AbsCorr(xs, ys) ==
    LET idx == SelectIdx([i \in DOMAIN xs |-> i],
                         {i \in DOMAIN xs : ~IsNaN(xs[i]) /\ ~IsNaN(ys[i])})
        n   == Len(idx)
    IN  IF n < 2 THEN NaN
        ELSE
        LET x   == Reduced([i \in 1..n |-> xs[idx[i]]])
            y   == Reduced([i \in 1..n |-> ys[idx[i]]])
            sx  == ISum(x)
            sy  == ISum(y)
            cov == n * ISum([i \in 1..n |-> x[i] * y[i]]) - sx * sy
            vx  == n * ISum([i \in 1..n |-> x[i] * x[i]]) - sx * sx
            vy  == n * ISum([i \in 1..n |-> y[i] * y[i]]) - sy * sy
        IN  IF vx = 0 \/ vy = 0 THEN NaN
            ELSE LET r2 == RMul(Norm(cov, vx), Norm(cov, vy))
                     k  == (r2[1] * 1000) \div r2[2]
                     rm == (r2[1] * 1000) % r2[2]
                 IN  Norm(ISqrt(k * 1000 + (rm * 1000) \div r2[2]), 1000)

\* consensus_data.loc[common_dates, 'Close'] and result.data.loc[common_dates, 'Close']
CloseAt(df, dates) == [i \in DOMAIN dates |-> df.val[dates[i]]["Close"]]

\* The correlation step both scorers share: NaN when it is not computed
SourceCorrelation(r, consensus_data) ==
    LET common_dates == IndexIntersection(consensus_data.index, r.data.index)
    IN  IF Len(common_dates) > 1
        THEN AbsCorr(CloseAt(consensus_data, common_dates), CloseAt(r.data, common_dates))
        ELSE NaN

\* ------------------------------------ MultiSourceValidator._calculate_confidence
\* (num_sources / 5.0) * 0.3
SourceCountTerm(num_sources) == RMul(Norm(num_sources, 5), Norm(3, 10))

_calculate_confidence(srs, consensus_data) ==
    IF srs = <<>> \/ IsEmptyDF(consensus_data) THEN R(0)
    ELSE
    LET num_sources == Len(srs)
        avg_quality == RMean([i \in DOMAIN srs |-> srs[i].validation_result.quality_score])
        corrs       == [i \in DOMAIN srs |->
                          IF IsEmptyDF(srs[i].data) THEN NaN
                          ELSE SourceCorrelation(srs[i], consensus_data)]
        agreement_scores == SelectIdx(corrs, {c \in Range(corrs) : ~IsNaN(c)})
        avg_agreement == IF agreement_scores # <<>> THEN RMean(agreement_scores) ELSE R(0)
        confidence == RAdd(RAdd(SourceCountTerm(num_sources),
                                RMul(avg_quality, Norm(4, 10))),
                           RMul(avg_agreement, Norm(3, 10)))
    IN  RMin(R(1), RMax(R(0), confidence))

\* Mutant: the agreement as a percentage
AgreementAsPercent(r, consensus_data) ==
    IF IsEmptyDF(r.data) THEN R(0)
    ELSE LET c == SourceCorrelation(r, consensus_data)
         IN  IF IsNaN(c) THEN R(0) ELSE RMul(c, R(100))

\* ------------------------------ MultiSourceValidator._calculate_source_agreement
SourceAgreementOf(r, consensus_data) ==
    IF IsEmptyDF(r.data) THEN R(0)
    ELSE LET c == SourceCorrelation(r, consensus_data)
         IN  IF IsNaN(c) THEN R(0) ELSE c

_calculate_source_agreement(srs, consensus_data) ==
    LET keys == DictKeys(srs)
    IN  [keys |-> keys,
         at   |-> [k \in Range(keys) |->
                     SourceAgreementOf(LastWithName(srs, k), consensus_data)]]

\* ---------------------------------------- MultiSourceValidator._detect_anomalies
Inf == <<1, 0>>

\* abs((source_close - consensus_close) / consensus_close); x/0 is infinite, 0/0 NaN
Deviation(source_close, consensus_close) ==
    IF IsNaN(source_close) \/ IsNaN(consensus_close) THEN NaN
    ELSE IF consensus_close[1] = 0
         THEN (IF source_close[1] = 0 THEN NaN ELSE Inf)
    ELSE RAbs(RDiv(RSub(source_close, consensus_close), consensus_close))

\* deviation > self.anomaly_threshold
HighDeviation(dev, threshold) == dev = Inf \/ (dev # Inf /\ RLt(threshold, dev))

SourceAnomalies(r, consensus_data, threshold) ==
    IF IsEmptyDF(r.data) THEN <<>>
    ELSE
    LET common_dates == IndexIntersection(consensus_data.index, r.data.index)
        dev(t) == Deviation(r.data.val[t]["Close"], consensus_data.val[t]["Close"])
        anomaly_dates == SelectIdx(common_dates,
                            {t \in Range(common_dates) : HighDeviation(dev(t), threshold)})
    IN  [k \in DOMAIN anomaly_dates |->
            [source          |-> r.cls,
             date            |-> anomaly_dates[k],
             consensus_price |-> consensus_data.val[anomaly_dates[k]]["Close"],
             source_price    |-> r.data.val[anomaly_dates[k]]["Close"],
             deviation_pct   |-> IF dev(anomaly_dates[k]) = Inf THEN Inf
                                 ELSE RMul(dev(anomaly_dates[k]), R(100)),
             type            |-> "price_deviation"]]

RECURSIVE Concat(_)
Concat(ss) == IF ss = <<>> THEN <<>> ELSE ss[1] \o Concat(Tail(ss))

_detect_anomalies(srs, consensus_data, threshold) ==
    Concat([i \in DOMAIN srs |-> SourceAnomalies(srs[i], consensus_data, threshold)])

\* ------------------------------------------------------- ConsensusMethod
ConsensusMethods == {"majority", "weighted_average", "highest_quality", "median"}

\* The method dispatch of _create_consensus
ApplyMethod(method, aligned, srs) ==
    CASE method = "weighted_average" -> _weighted_average_consensus(aligned, srs)
      [] method = "majority"         -> _majority_consensus(aligned, srs)
      [] method = "highest_quality"  -> _highest_quality_consensus(aligned, srs)
      [] method = "median"           -> _median_consensus(aligned, srs)
      [] OTHER                       -> _weighted_average_consensus(aligned, srs)

\* `aligned_data.empty`: _align_data_sources returns a dict, and a dict has no
\* attribute 'empty', so the attribute access raises AttributeError.
DictHasAttrEmpty == FALSE

\* ---------------------------------------- MultiSourceValidator._create_consensus
_create_consensus(srs, method) ==
    IF srs = <<>> THEN EmptyDF
    ELSE IF Len(srs) = 1 THEN srs[1].data
    ELSE LET aligned == _align_data_sources(srs)
         IN  IF ~DictHasAttrEmpty THEN Raise("AttributeError")
             ELSE IF aligned.keys = <<>> THEN EmptyDF
             ELSE ApplyMethod(method, aligned, srs)

\* Mutant: the empty branch reports the same reason as the one-source branch
FallbackSameReason(srs) ==
    [consensus_data   |-> IF srs # <<>> THEN MaxByQuality(srs).data ELSE EmptyDF,
     confidence_score |-> IF srs # <<>>
                          THEN RMul(MaxByQuality(srs).validation_result.quality_score,
                                    Norm(1, 2))
                          ELSE R(0),
     source_agreement |-> IF srs # <<>>
                          THEN [keys |-> <<MaxByQuality(srs).cls>>,
                                at   |-> [k \in {MaxByQuality(srs).cls} |-> R(1)]]
                          ELSE EmptyDict,
     anomalies        |-> <<>>,
     metadata         |-> [fallback |-> TRUE, reason |-> "insufficient_sources"]]

\* Mutant: the one-source confidence is not halved
FallbackFullConfidence(srs) ==
    IF srs # <<>>
    THEN [consensus_data   |-> MaxByQuality(srs).data,
          confidence_score |-> MaxByQuality(srs).validation_result.quality_score,
          source_agreement |-> [keys |-> <<MaxByQuality(srs).cls>>,
                                at   |-> [k \in {MaxByQuality(srs).cls} |-> R(1)]],
          anomalies        |-> <<>>,
          metadata         |-> [fallback |-> TRUE, reason |-> "insufficient_sources"]]
    ELSE [consensus_data   |-> EmptyDF,
          confidence_score |-> R(0),
          source_agreement |-> EmptyDict,
          anomalies        |-> <<>>,
          metadata         |-> [fallback |-> TRUE, reason |-> "no_sources"]]

\* Mutant: the one-source confidence depends on which configured adapter it was
FallbackByPosition(srs) ==
    IF srs # <<>>
    THEN [consensus_data   |-> MaxByQuality(srs).data,
          confidence_score |-> RDiv(MaxByQuality(srs).validation_result.quality_score,
                                    R(1 + MaxByQuality(srs).adapter)),
          source_agreement |-> [keys |-> <<MaxByQuality(srs).cls>>,
                                at   |-> [k \in {MaxByQuality(srs).cls} |-> R(1)]],
          anomalies        |-> <<>>,
          metadata         |-> [fallback |-> TRUE, reason |-> "insufficient_sources"]]
    ELSE [consensus_data   |-> EmptyDF,
          confidence_score |-> R(0),
          source_agreement |-> EmptyDict,
          anomalies        |-> <<>>,
          metadata         |-> [fallback |-> TRUE, reason |-> "no_sources"]]

\* ----------------------------------- MultiSourceValidator._create_fallback_result
_create_fallback_result(srs) ==
    IF srs # <<>>
    THEN LET best_source == MaxByQuality(srs)
         IN  [consensus_data   |-> best_source.data,
              confidence_score |-> RMul(best_source.validation_result.quality_score,
                                        Norm(1, 2)),
              source_agreement |-> [keys |-> <<best_source.cls>>,
                                    at   |-> [k \in {best_source.cls} |-> R(1)]],
              anomalies        |-> <<>>,
              metadata         |-> [fallback |-> TRUE, reason |-> "insufficient_sources"]]
    ELSE [consensus_data   |-> EmptyDF,
          confidence_score |-> R(0),
          source_agreement |-> EmptyDict,
          anomalies        |-> <<>>,
          metadata         |-> [fallback |-> TRUE, reason |-> "no_sources"]]

\* -------------------------------------- MultiSourceValidator._create_error_result
_create_error_result(error_message) ==
    [consensus_data   |-> EmptyDF,
     confidence_score |-> R(0),
     source_agreement |-> EmptyDict,
     anomalies        |-> <<>>,
     metadata         |-> [error |-> TRUE, message |-> error_message]]

\* The request of a call: symbol, the formatted date range, interval
Request == [symbol |-> "AAPL", date_range |-> "2024-01-01 to 2024-01-31", interval |-> "1d"]

\* Lines 86-107 of get_consensus_data, given the consensus frame: scoring,
\* anomaly detection and the assembly of the result
AssembleResult(v, srs, consensus_data) ==
    [consensus_data   |-> consensus_data,
     confidence_score |-> _calculate_confidence(srs, consensus_data),
     source_agreement |-> _calculate_source_agreement(srs, consensus_data),
     anomalies        |-> _detect_anomalies(srs, consensus_data, v.anomaly_threshold),
     metadata         |-> [sources_used     |-> Len(srs),
                           consensus_method |-> v.consensus_method,
                           symbol           |-> Request.symbol,
                           date_range       |-> Request.date_range,
                           interval         |-> Request.interval]]

\* Lines 81-107: what the body of the outer try yields once the adapters have
\* been read, a ConsensusResult or the exception it raises
AfterFetch(v, srs) ==
    IF Len(srs) < v.min_sources THEN _create_fallback_result(srs)
    ELSE LET consensus_data == _create_consensus(srs, v.consensus_method)
         IN  IF Raised(consensus_data) THEN consensus_data
             ELSE AssembleResult(v, srs, consensus_data)

\* Mutant: no outer handler, the exception propagates to the caller
OuterExceptMissing(outcome) == outcome

\* Lines 109-111: the outer handler turns any exception into an error result
OuterExcept(outcome) ==
    IF Raised(outcome) THEN _create_error_result(outcome.raised) ELSE outcome

\* ================================================================ state
VARIABLES
    validator,       \* the MultiSourceValidator: adapters (their class names, in
                     \* order), consensus_method, anomaly_threshold, min_sources
    pc,              \* where the call of get_consensus_data stands
    i,               \* the adapter the loop of lines 57-79 reads next
    source_results,  \* the DataSourceResults collected so far
    result,          \* what the call returned (or raised), NoResult before that
    log              \* per adapter, how far the loop body went in this call

vars == <<validator, pc, i, source_results, result, log>>

NoResult == [pending |-> TRUE]

\* MultiSourceValidator.__init__
NewValidator(adapters, consensus_method) ==
    [adapters          |-> adapters,
     consensus_method  |-> consensus_method,
     anomaly_threshold |-> Norm(1, 10),
     min_sources       |-> 2]

\* The orchestrator is configured with the repository's two concrete adapters
ConcreteClasses == {"YFinanceAdapter", "AlphaVantageAdapter"}

AdapterLists == UNION {[1..n -> ConcreteClasses] : n \in 0..MaxAdapters}

\* The series an adapter may return in a call of the orchestrator: every
\* profile over the windows k..MaxT
FetchPool == {SeriesOf(p, k..MaxT) : p \in Profiles, k \in Timestamps}

Init ==
    /\ validator \in {NewValidator(a, m) : a \in AdapterLists, m \in ConsensusMethods}
    /\ pc = "idle"
    /\ i = 1
    /\ source_results = <<>>
    /\ result = NoResult
    /\ log = [a \in DOMAIN validator.adapters |-> "pending"]

\* Mutant: the SourceResults of the previous call are kept
CallKeepsSources ==
    /\ pc \in {"idle", "returned"}
    /\ pc' = "loop"
    /\ i' = 1
    /\ result' = NoResult
    /\ log' = [a \in DOMAIN validator.adapters |-> "pending"]
    /\ UNCHANGED <<validator, source_results>>

\* get_consensus_data is entered: line 56
Call ==
    /\ pc \in {"idle", "returned"}
    /\ pc' = "loop"
    /\ i' = 1
    /\ source_results' = <<>>
    /\ result' = NoResult
    /\ log' = [a \in DOMAIN validator.adapters |-> "pending"]
    /\ UNCHANGED validator

InLoop == pc = "loop" /\ i <= Len(validator.adapters)

\* Mutant: the `continue` of line 61 is missing, the unavailable adapter is fetched
AdapterUnavailableFetched ==
    /\ InLoop
    /\ \E data \in FetchPool :
          source_results' =
              Append(source_results, DataSourceResult(i, validator.adapters[i], data))
    /\ log' = [log EXCEPT ![i] = "unavailable"]
    /\ i' = i + 1
    /\ UNCHANGED <<validator, pc, result>>

\* Lines 59-61: is_available() is false, the adapter is skipped
AdapterUnavailable ==
    /\ InLoop
    /\ log' = [log EXCEPT ![i] = "unavailable"]
    /\ i' = i + 1
    /\ UNCHANGED <<validator, pc, source_results, result>>

\* Mutant: the inner handler leaves the loop instead of continuing
AdapterRaisesAborts ==
    /\ InLoop
    /\ \E stage \in {"is_available", "fetch_data", "data.empty", "validate_data"} :
          log' = [log EXCEPT ![i] = IF stage = "is_available" THEN "raised_unfetched"
                                    ELSE "fetched_failed"]
    /\ i' = Len(validator.adapters) + 1
    /\ UNCHANGED <<validator, pc, source_results, result>>

\* Lines 77-79: is_available, fetch_data, the `data.empty` of a malformed return
\* (None) or validate_data raises; the inner handler logs and continues
AdapterRaises ==
    /\ InLoop
    /\ \E stage \in {"is_available", "fetch_data", "data.empty", "validate_data"} :
          log' = [log EXCEPT ![i] = IF stage = "is_available" THEN "raised_unfetched"
                                    ELSE "fetched_failed"]
    /\ i' = i + 1
    /\ UNCHANGED <<validator, pc, source_results, result>>

\* Mutant: after an empty response the same adapter is fetched from again
FetchEmptyRetried ==
    /\ InLoop
    /\ log' = [log EXCEPT ![i] = "fetched_empty"]
    /\ i' = i
    /\ UNCHANGED <<validator, pc, source_results, result>>

\* Lines 63-65: the fetch returns an empty frame
FetchEmpty ==
    /\ InLoop
    /\ log' = [log EXCEPT ![i] = "fetched_empty"]
    /\ i' = i + 1
    /\ UNCHANGED <<validator, pc, source_results, result>>

\* Lines 63-75: the fetch returns a series, which is validated and appended
FetchSeries ==
    /\ InLoop
    /\ \E data \in FetchPool :
          source_results' =
              Append(source_results, DataSourceResult(i, validator.adapters[i], data))
    /\ log' = [log EXCEPT ![i] = "appended"]
    /\ i' = i + 1
    /\ UNCHANGED <<validator, pc, result>>

\* Lines 81-111: the loop is over; fallback, consensus or error result
Return ==
    /\ pc = "loop"
    /\ i > Len(validator.adapters)
    /\ result' = OuterExcept(AfterFetch(validator, source_results))
    /\ pc' = "returned"
    /\ UNCHANGED <<validator, i, source_results, log>>

Next ==
    \/ Call
    \/ AdapterUnavailable
    \/ AdapterRaises
    \/ FetchEmpty
    \/ FetchSeries
    \/ Return

Spec == Init /\ [][Next]_vars

\* ======================================================= the engine alone
\* The series that have a bar at every timestamp of the window
FullPool == {SeriesOf(p, Timestamps) : p \in Profiles}

\* The series a list of n sources is drawn from
PoolFor(n) == IF n <= MaxGapSources THEN SeriesPool ELSE FullPool

\* The consensus engine, the scorers and the detector applied directly to a
\* list of two or more DataSourceResults.
EngineInit ==
    /\ validator = NewValidator(<<>>, "weighted_average")
    /\ pc = "engine"
    /\ i = 1
    /\ \E n \in 2..MaxAdapters :
          \E cls \in [1..n -> AdapterClasses], data \in [1..n -> PoolFor(n)] :
             source_results = [k \in 1..n |-> DataSourceResult(k, cls[k], data[k])]
    /\ result = NoResult
    /\ log = <<>>

\* _align_data_sources, the method, then lines 89-107
EngineRun(method) ==
    /\ pc = "engine"
    /\ LET aligned        == _align_data_sources(source_results)
           consensus_data == ApplyMethod(method, aligned, source_results)
           v              == [validator EXCEPT !.consensus_method = method]
       IN  /\ validator' = v
           /\ result' = IF Raised(consensus_data) THEN consensus_data
                        ELSE AssembleResult(v, source_results, consensus_data)
    /\ pc' = "applied"
    /\ UNCHANGED <<i, source_results, log>>

RunWeightedAverage == EngineRun("weighted_average")
RunMajority == EngineRun("majority")
RunHighestQuality == EngineRun("highest_quality")
RunMedian == EngineRun("median")

EngineNext ==
    \/ RunWeightedAverage
    \/ RunMajority
    \/ RunHighestQuality
    \/ RunMedian

EngineSpec == EngineInit /\ [][EngineNext]_vars

\* ============================================ the engine on edge inputs
\* An adapter class whose source_info.reliability_score is 0, next to a rated one
EdgeClasses == {"YFinanceAdapter", "UnratedAdapter"}

\* "worthless" closes at 0 at every timestamp
EdgeProfiles == {"steady", "worthless"}

EdgePool == {SeriesOf(p, mask) : p \in EdgeProfiles, mask \in (SUBSET Timestamps) \ {{}}}

\* Two DataSourceResults whose weights or closes may be 0
EdgeInit ==
    /\ validator = NewValidator(<<>>, "weighted_average")
    /\ pc = "engine"
    /\ i = 1
    /\ \E cls \in [1..2 -> EdgeClasses], data \in [1..2 -> EdgePool] :
          source_results = [k \in 1..2 |-> DataSourceResult(k, cls[k], data[k])]
    /\ result = NoResult
    /\ log = <<>>

EdgeSpec == EdgeInit /\ [][EngineNext]_vars

\* ================================================= validate_data alone
\* A bar with close c; `inverted` puts High below Low; the cells of `missing`
\* are NaN
DefectBar(c, inverted, missing) ==
    [col \in Range(OHLCV) |->
        IF col \in missing THEN NaN
        ELSE CASE col = "Open"   -> R(c)
               [] col = "High"   -> IF inverted THEN R(c - 1) ELSE R(c + 1)
               [] col = "Low"    -> IF inverted THEN R(c + 1) ELSE R(c - 1)
               [] col = "Close"  -> R(c)
               [] OTHER          -> R(10)]

DefectBars ==
    {DefectBar(c, inv, missing) :
        c \in {0, 100, 150}, inv \in BOOLEAN,
        missing \in {{}, {"Volume"}, {"Volume", "Open"}}}

\* The frames validate_data is applied to: no row, or 1..MaxT rows of DefectBars
DefectFrames ==
    {EmptyDF} \cup
    UNION {{[index |-> SortedSeq(1..n), columns |-> Range(OHLCV), val |-> rows] :
                rows \in [1..n -> DefectBars]} : n \in 1..MaxT}

ValidateInit ==
    /\ validator = NewValidator(<<"YFinanceAdapter">>, "weighted_average")
    /\ pc = "validate"
    /\ i = 1
    /\ source_results = <<>>
    /\ result = NoResult
    /\ log = <<>>

\* adapter.validate_data(data)
ValidateData ==
    /\ pc = "validate"
    /\ \E data \in DefectFrames :
          result' = [data |-> data, validation_result |-> validate_data(data)]
    /\ pc' = "validated"
    /\ UNCHANGED <<validator, i, source_results, log>>

ValidateSpec == ValidateInit /\ [][ValidateData]_vars

\* ============================================ a fetch that never completes
\* Line 63: fetch_data is called without a timeout; when the adapter never
\* returns, the call stays in it
FetchNeverCompletes ==
    /\ InLoop
    /\ log' = [log EXCEPT ![i] = "fetching"]
    /\ pc' = "blocked"
    /\ UNCHANGED <<validator, i, source_results, result>>

LiveInit == Init /\ validator.consensus_method = "weighted_average"

LiveNext == Next \/ FetchNeverCompletes

\* The interpreter runs every statement of the call that can run
LiveSpec == LiveInit /\ [][LiveNext]_vars /\ WF_vars(LiveNext)

\* ================================================================ claims
IsConsensusResult(r) ==
    DOMAIN r = {"consensus_data", "confidence_score", "source_agreement",
                "anomalies", "metadata"}

Returned == pc = "returned"

\* C1: when at least min_sources adapters yield a non-empty series, the call ends
\* in the success state: metadata carries sources_used (the number of
\* SourceResults), the method, symbol, date_range and interval, and neither
\* metadata.error nor metadata.fallback is set.
C1_SuccessTerminal ==
    (Returned /\ Len(source_results) >= validator.min_sources) =>
        /\ IsConsensusResult(result)
        /\ "error" \notin DOMAIN result.metadata
        /\ "fallback" \notin DOMAIN result.metadata
        /\ DOMAIN result.metadata =
              {"sources_used", "consensus_method", "symbol", "date_range", "interval"}
        /\ result.metadata.sources_used = Len(source_results)
        /\ result.metadata.consensus_method = validator.consensus_method
        /\ result.metadata.symbol = Request.symbol
        /\ result.metadata.date_range = Request.date_range
        /\ result.metadata.interval = Request.interval

\* C2: whatever the adapters do (unavailable, raising in is_available, fetch_data
\* or validate_data, empty or malformed series), get_consensus_data returns a
\* ConsensusResult and no exception escapes to the caller.
C2_AlwaysConsensusResult ==
    Returned => (~Raised(result) /\ IsConsensusResult(result))

C2_Witness ==
    /\ Returned
    /\ \E a \in DOMAIN log : log[a] = "raised_unfetched"
    /\ \E a \in DOMAIN log : log[a] = "fetched_failed"
    /\ IsConsensusResult(result)

C4_SingleSourcePassthrough ==
    (Returned /\ Len(source_results) = 1) =>
        /\ result.consensus_data = source_results[1].data
        /\ result.confidence_score =
              RDiv(source_results[1].validation_result.quality_score, R(2))
        /\ result.source_agreement.keys = <<source_results[1].cls>>
        /\ \A k \in DOMAIN result.source_agreement.at : result.source_agreement.at[k] = R(1)
        /\ result.anomalies = <<>>
        /\ result.metadata = [fallback |-> TRUE, reason |-> "insufficient_sources"]

C4_Witness ==
    /\ Returned
    /\ Len(source_results) = 1
    /\ Len(validator.adapters) = 3
    /\ validator.consensus_method = "median"
    /\ source_results[1].validation_result.quality_score = Norm(7, 10)
    /\ result.confidence_score = Norm(7, 20)

\* ------------------------------------------------- claims on the engine
Applied(method) ==
    pc = "applied" /\ validator.consensus_method = method /\ ~Raised(result)

HasBar(r, t) == t \in Range(r.data.index)

AllDates(srs) == UNION {Range(srs[k].data.index) : k \in DOMAIN srs}

\* The sources among srs that have a bar at t, as their positions in order
Contributors(srs, t) == SelectIdx([k \in DOMAIN srs |-> k],
                                  {k \in DOMAIN srs : HasBar(srs[k], t)})

\* Sum(weight_i * value_i) / Sum(weight_i) over the sources at positions `who`
WeightedMean(srs, who, t, c) ==
    RDiv(RSum([k \in DOMAIN who |-> RMul(srs[who[k]].weight, srs[who[k]].data.val[t][c])]),
         RSum([k \in DOMAIN who |-> srs[who[k]].weight]))

\* The values of field c at t of the sources at positions `who`
ValuesAt(srs, who, t, c) == [k \in DOMAIN who |-> srs[who[k]].data.val[t][c]]

Present(vals) == SelectIdx(vals, {v \in Range(vals) : ~IsNaN(v)})

\* The statistical median of a non-empty list of numbers
StatMedian(vals) ==
    LET sorted == SortRat(vals)
        n      == Len(sorted)
    IN  IF n % 2 = 1 THEN sorted[(n + 1) \div 2]
        ELSE RDiv(RAdd(sorted[n \div 2], sorted[n \div 2 + 1]), R(2))

InConsensus(t) == t \in Range(result.consensus_data.index)

\* C5: under weighted_average, at every timestamp where all sources have a bar,
\* each OHLCV field (that every source reports there) of the consensus equals
\* Sum(weight_i * value_i) / Sum(weight_i) over the sources.
C5_WeightedAverageOverSources ==
    Applied("weighted_average") =>
        \A t \in Timestamps :
            (\A k \in DOMAIN source_results : HasBar(source_results[k], t)) =>
                \A c \in Range(OHLCV) :
                    (\A k \in DOMAIN source_results :
                        ~IsNaN(source_results[k].data.val[t][c])) =>
                        /\ InConsensus(t)
                        /\ result.consensus_data.val[t][c] =
                              WeightedMean(source_results,
                                           [k \in DOMAIN source_results |-> k], t, c)

\* C6: a timestamp that one source lacks and another has is still present in the
\* consensus, computed from the sources that have a bar there: under
\* weighted_average the weighted mean of those sources alone, under majority and
\* median their median.
C6_MissingSourceExcluded ==
    \A m \in {"weighted_average", "majority", "median"} :
        Applied(m) =>
            \A t \in AllDates(source_results) :
                LET who == Contributors(source_results, t)
                IN  (/\ Len(who) < Len(source_results)
                     /\ \A k \in DOMAIN who, c \in Range(OHLCV) :
                           ~IsNaN(source_results[who[k]].data.val[t][c])) =>
                        /\ InConsensus(t)
                        /\ \A c \in Range(OHLCV) :
                              result.consensus_data.val[t][c] =
                                  IF m = "weighted_average"
                                  THEN WeightedMean(source_results, who, t, c)
                                  ELSE StatMedian(ValuesAt(source_results, who, t, c))

\* C7: under median, for every timestamp and OHLCV field the consensus value is
\* the statistical median of the values of the sources that have a non-missing
\* observation there (the mean of the two middle values for an even count).
C7_MedianOfObservations ==
    Applied("median") =>
        \A t \in AllDates(source_results), c \in Range(OHLCV) :
            LET vals == Present(ValuesAt(source_results,
                                         Contributors(source_results, t), t, c))
            IN  vals # <<>> =>
                    /\ InConsensus(t)
                    /\ result.consensus_data.val[t][c] = StatMedian(vals)

\* C8: for every list of sources, the majority method and the median method
\* produce the same consensus series.
C8_MajorityEqualsMedian ==
    /\ Applied("majority") =>
          result.consensus_data =
              _median_consensus(_align_data_sources(source_results), source_results)
    /\ Applied("median") =>
          result.consensus_data =
              _majority_consensus(_align_data_sources(source_results), source_results)

C8_Witness ==
    /\ Applied("majority")
    /\ Len(source_results) = 2
    /\ source_results[1].cls # source_results[2].cls
    /\ \A k \in DOMAIN source_results : HasBar(source_results[k], 1)
    /\ \E k \in DOMAIN source_results : ~HasBar(source_results[k], 2)
    /\ source_results[1].data.val[1]["Close"] # source_results[2].data.val[1]["Close"]
    /\ Len(result.consensus_data.index) = 2
    /\ result.consensus_data.val[1]["Close"] =
          RDiv(RAdd(source_results[1].data.val[1]["Close"],
                    source_results[2].data.val[1]["Close"]), R(2))

BestQuality(srs, k) ==
    \A j \in DOMAIN srs :
        RLe(srs[j].validation_result.quality_score, srs[k].validation_result.quality_score)

SameQuality(srs, j, k) ==
    srs[j].validation_result.quality_score = srs[k].validation_result.quality_score

ClaimedConfidence(srs, consensus_data) ==
    LET n == Len(srs)
        count_term == RMul(Norm(3, 10), RMin(R(1), Norm(n, 5)))
        quality    == RMean([k \in DOMAIN srs |-> srs[k].validation_result.quality_score])
        agreement  == RMean([k \in DOMAIN srs |-> SourceAgreementOf(srs[k], consensus_data)])
    IN  RMin(R(1), RMax(R(0), RAdd(RAdd(count_term, RMul(Norm(4, 10), quality)),
                                   RMul(Norm(3, 10), agreement))))

\* C10: with two or more sources, confidence_score equals
\* 0.3 * min(1, source_count/5) + 0.4 * mean(quality_score over sources)
\* + 0.3 * mean(agreement over sources), clamped to [0, 1].
C10_ConfidenceFormula ==
    \A m \in ConsensusMethods :
        (Applied(m) /\ Len(source_results) >= 2) =>
            result.confidence_score =
                ClaimedConfidence(source_results, result.consensus_data)

\* --------------------------------------------- claims on the adapter loop
\* C14: an adapter whose is_available() returned false in this call is never
\* fetched from: the loop has passed it and no SourceResult comes from it.
C14_UnavailableNeverFetched ==
    \A a \in DOMAIN log :
        log[a] = "unavailable" =>
            /\ pc \in {"loop", "returned"}
            /\ a < i
            /\ \A k \in DOMAIN source_results : source_results[k].adapter # a

C14_Witness ==
    /\ Returned
    /\ Len(validator.adapters) = 3
    /\ log[1] = "appended" /\ log[2] = "unavailable" /\ log[3] = "appended"
    /\ [k \in DOMAIN source_results |-> source_results[k].adapter] = <<1, 3>>

\* The adapters that produced a series in this call, in configuration order
Succeeded == SelectIdx([a \in DOMAIN log |-> a], {a \in DOMAIN log : log[a] = "appended"})

\* What the call returns when only the adapters of `kept` are configured and
\* each returns the series it returned in this call
RunWithOnly(kept) ==
    LET v   == NewValidator([k \in DOMAIN kept |-> validator.adapters[kept[k]]],
                            validator.consensus_method)
        srs == [k \in DOMAIN kept |->
                   DataSourceResult(k, v.adapters[k], source_results[k].data)]
    IN  OuterExcept(AfterFetch(v, srs))

\* C15: an adapter that raises or returns an empty series is left out and the
\* others are still queried: at the return every adapter has been visited, the
\* SourceResults are those of the adapters that produced a series, and the
\* result is the one of a validator configured without the others.
C15_FailureExcludesOnlyItself ==
    Returned =>
        /\ \A a \in DOMAIN log : log[a] # "pending"
        /\ [k \in DOMAIN source_results |-> source_results[k].adapter] = Succeeded
        /\ result = RunWithOnly(Succeeded)

C15_Witness ==
    /\ Returned
    /\ Len(validator.adapters) = 3
    /\ log = <<"fetched_failed", "appended", "fetched_empty">>
    /\ result.metadata = [fallback |-> TRUE, reason |-> "insufficient_sources"]
    /\ result.consensus_data = source_results[1].data

\* The SourceResults without the identity of the adapter object
Anonymous(srs) == [k \in DOMAIN srs |-> [srs[k] EXCEPT !.adapter = 0]]

Validated == pc = "validated"

\* data.isnull().sum().sum() / (len(data) * len(data.columns)) of a non-empty frame
MissingRatio(df) == Norm(MissingCount(df), Len(df.index) * Cardinality(df.columns))

AnyInvalidPrice(df) == \E t \in Range(df.index) : RLe(df.val[t]["Close"], R(0))

AnyInconsistent(df) == \E t \in Range(df.index) : RLt(df.val[t]["High"], df.val[t]["Low"])

\* C12: validate_data returns is_valid == true exactly when its errors list is
\* empty; an empty series is invalid with the no-data error; a series whose
\* missing ratio lies in (0.05, 0.10] and that has no invalid price and no
\* inverted high/low, or any series with warnings only, is valid with
\* quality_score below 1.
C12_ValidIffNoErrors ==
    Validated =>
        LET df == result.data
            vr == result.validation_result
        IN  /\ vr.is_valid <=> (vr.errors = <<>>)
            /\ IsEmptyDF(df) => (~vr.is_valid /\ vr.errors = <<"No data returned">>)
            /\ (vr.errors = <<>> /\ vr.warnings # <<>>) =>
                   (vr.is_valid /\ RLt(vr.quality_score, R(1)))
            /\ (/\ ~IsEmptyDF(df)
                 /\ RLt(Norm(1, 20), MissingRatio(df))
                 /\ RLe(MissingRatio(df), Norm(1, 10))
                 /\ ~AnyInvalidPrice(df)
                 /\ ~AnyInconsistent(df)) =>
                   (vr.is_valid /\ RLt(vr.quality_score, R(1)))
            /\ (~IsEmptyDF(df) /\ (AnyInvalidPrice(df) \/ AnyInconsistent(df)
                                   \/ RLt(Norm(1, 10), MissingRatio(df)))) => ~vr.is_valid

C12_Witness ==
    /\ Validated
    /\ result.validation_result.is_valid
    /\ result.validation_result.warnings = <<"Some missing data", "Many extreme returns">>
    /\ result.validation_result.quality_score = Norm(8, 10)

\* The level the thresholds give a score of `tenths` tenths
NominalLevel(tenths) ==
    IF tenths >= 9 THEN "excellent"
    ELSE IF tenths >= 7 THEN "good"
    ELSE IF tenths >= 5 THEN "fair"
    ELSE IF tenths >= 3 THEN "poor"
    ELSE "unknown"

\* C13: for every combination of deductions, quality_level is the level of the
\* score 1.0 - D with inclusive boundaries: >= 0.9 excellent, >= 0.7 good,
\* >= 0.5 fair, >= 0.3 poor, else unknown.
C13_LevelBoundaries ==
    (Validated /\ ~IsEmptyDF(result.data)) =>
        result.validation_result.quality_level = NominalLevel(RawScore(result.data))

\* ------------------------------------------- claims on anomaly detection
\* Source k and the consensus both have a close at t, and
\* |source_close - consensus_close| / consensus_close > threshold
DeviatesAt(srs, consensus_data, threshold, k, t) ==
    /\ HasBar(srs[k], t)
    /\ t \in Range(consensus_data.index)
    /\ ~IsNaN(srs[k].data.val[t]["Close"])
    /\ ~IsNaN(consensus_data.val[t]["Close"])
    /\ RLt(threshold,
           RDiv(RAbs(RSub(srs[k].data.val[t]["Close"], consensus_data.val[t]["Close"])),
                consensus_data.val[t]["Close"]))

\* The (source, timestamp) pairs that deviate, source by source and in time order
DeviatingPairs(srs, consensus_data, threshold) ==
    Concat([k \in DOMAIN srs |->
              LET dates == SelectIdx(SortedSeq(Timestamps),
                                     {t \in Timestamps :
                                        DeviatesAt(srs, consensus_data, threshold, k, t)})
              IN  [j \in DOMAIN dates |-> <<srs[k].cls, dates[j]>>]])

\* C11: the anomaly records are exactly the (source, timestamp) pairs at which
\* both the source and the consensus have a close and
\* |source_close - consensus_close| / consensus_close > anomaly_threshold, each
\* of kind price_deviation; a source with no bar at a timestamp has no record
\* there.
C11_AnomalyIffDeviation ==
    \A m \in ConsensusMethods :
        Applied(m) =>
            /\ [j \in DOMAIN result.anomalies |->
                    <<result.anomalies[j].source, result.anomalies[j].date>>]
                  = DeviatingPairs(source_results, result.consensus_data,
                                   validator.anomaly_threshold)
            /\ \A j \in DOMAIN result.anomalies :
                  result.anomalies[j].type = "price_deviation"

\* C18: under weighted_average, when the weights of all sources are 0 the engine
\* does not fail: it returns a consensus from which the affected timestamps, all
\* of them, are dropped.
C18_ZeroWeightsDropped ==
    (/\ pc = "applied"
     /\ validator.consensus_method = "weighted_average"
     /\ \A k \in DOMAIN source_results : source_results[k].weight = R(0)) =>
        /\ ~Raised(result)
        /\ result.consensus_data.index = <<>>

\* C19: no anomaly record is emitted at a timestamp where the consensus close
\* is 0.
C19_NoRecordAtZeroConsensus ==
    \A m \in ConsensusMethods :
        Applied(m) =>
            \A j \in DOMAIN result.anomalies :
                result.consensus_data.val[result.anomalies[j].date]["Close"] # R(0)

\* ------------------------------------------------- claims on the scores
InUnit(x) == RLe(R(0), x) /\ RLe(x, R(1))

MapValues(d) == [j \in DOMAIN d.keys |-> d.at[d.keys[j]]]

\* C20: a source whose correlation with the consensus is undefined has agreement
\* 0 in source_agreement, and the agreement term of confidence_score is the mean
\* over all SourceResults, equal to the mean of the values of source_agreement.
C20_UndefinedAgreementCounted ==
    \A m \in ConsensusMethods :
        (Applied(m) /\ ~IsEmptyDF(result.consensus_data)) =>
            /\ \A k \in DOMAIN source_results :
                  IsNaN(SourceCorrelation(source_results[k], result.consensus_data)) =>
                      \E j \in DOMAIN source_results :
                          /\ source_results[j].cls = source_results[k].cls
                          /\ result.source_agreement.at[source_results[k].cls] = R(0)
            /\ result.confidence_score =
                  RMin(R(1), RMax(R(0),
                      RAdd(RAdd(SourceCountTerm(Len(source_results)),
                                RMul(RMean([k \in DOMAIN source_results |->
                                              source_results[k].validation_result.quality_score]),
                                     Norm(4, 10))),
                           RMul(RMean(MapValues(result.source_agreement)), Norm(3, 10)))))

\* ------------------------------------------- claims on the quality score
\* The deductions of the four checks of a non-empty frame, in tenths
Deductions(df) ==
    <<MissingDeduction(df), InvalidPriceDeduction(df),
      InconsistentDeduction(df), ExtremeDeduction(df)>>

\* What the double 1.0 - D differs by from the double nearest to its tenth, in
\* units of 2^-55, D being the sum of the deductions ds in doubles
DirectOffset(ds) ==
    CASE ds = <<0, 4, 5, 0>> -> -1      \* 1.0 - 0.9 = 0.09999999999999998
      [] ds = <<1, 0, 5, 1>> -> 2       \* 1.0 - 0.7 = 0.30000000000000004
      [] ds = <<3, 0, 5, 0>> -> -2      \* 1.0 - 0.8 = 0.19999999999999996
      [] ds = <<3, 0, 5, 1>> -> -1      \* 1.0 - 0.9 = 0.09999999999999998
      [] ds = <<3, 4, 0, 0>> -> 2       \* 1.0 - 0.7 = 0.30000000000000004
      [] ds = <<3, 4, 0, 1>> -> 2       \* 1.0 - 0.7999999999999999 = 0.20000000000000007
      [] OTHER               -> 0

ScoreLe(a, b) ==
    \/ RLt(a.quality_score, b.quality_score)
    \/ a.quality_score = b.quality_score /\ a.score_offset <= b.score_offset

\* Extreme single-bar returns (above 20%) in more than 5% of the returns
ManyExtremeReturns(df) ==
    LET close   == ColumnOf(df, "Close")
        rets    == DefinedReturns(close)
        extreme == {j \in rets : IsExtremeReturn(close[j], close[j + 1])}
    IN  Cardinality(extreme) * 20 > Cardinality(rets)

\* The outcome of the four checks on a non-empty frame: the missing-value
\* ratio above 0.10 (2), above 0.05 (1) or not (0); then invalid price,
\* inconsistent high/low and extreme returns, each triggered (1) or not (0)
Checks(df) ==
    <<IF RLt(Norm(1, 10), MissingRatio(df)) THEN 2
      ELSE IF RLt(Norm(1, 20), MissingRatio(df)) THEN 1 ELSE 0,
      IF AnyInvalidPrice(df) THEN 1 ELSE 0,
      IF AnyInconsistent(df) THEN 1 ELSE 0,
      IF ManyExtremeReturns(df) THEN 1 ELSE 0>>

\* Frame `worse` triggers one check more than `df` (or the heavier missing-value
\* deduction) and the other checks come out the same
OneMoreCheck(df, worse) ==
    /\ ~IsEmptyDF(df) /\ ~IsEmptyDF(worse)
    /\ \E c \in 1..4 :
          /\ Checks(worse)[c] > Checks(df)[c]
          /\ \A o \in (1..4) \ {c} : Checks(worse)[o] = Checks(df)[o]

\* C22: a frame that triggers one more data-quality check than another, the
\* other checks being equal, never has the higher quality_score.
C22_MoreChecksNeverRaiseScore ==
    Validated =>
        \A worse \in DefectFrames :
            OneMoreCheck(result.data, worse) =>
                ScoreLe(validate_data(worse), result.validation_result)

C22_Witness ==
    /\ Validated
    /\ Deductions(result.data) = <<3, 4, 0, 0>>
    /\ \E worse \in DefectFrames :
          /\ OneMoreCheck(result.data, worse)
          /\ Deductions(worse) = <<3, 4, 0, 1>>
          /\ validate_data(worse).score_offset < result.validation_result.score_offset

\* ------------------------------------------- claims on the time alignment
\* C23: every timestamp of the consensus series is one at which some source has
\* a bar, every consensus cell has a source with a value in that cell, and no
\* timestamp appears twice.
C23_NoFabricatedTimestamp ==
    \A m \in ConsensusMethods :
        Applied(m) =>
            LET cd == result.consensus_data
            IN  /\ \A t \in Range(cd.index) :
                      /\ \E k \in DOMAIN source_results : HasBar(source_results[k], t)
                      /\ \A c \in cd.columns :
                            ~IsNaN(cd.val[t][c]) =>
                                \E k \in DOMAIN source_results :
                                    /\ HasBar(source_results[k], t)
                                    /\ ~IsNaN(source_results[k].data.val[t][c])
                /\ \A t \in Timestamps \ AllDates(source_results) : ~InConsensus(t)
                /\ Cardinality(Range(cd.index)) = Len(cd.index)

C23_Witness ==
    /\ Applied("majority")
    /\ AllDates(source_results) = {MaxT}
    /\ result.consensus_data.index = <<MaxT>>
    /\ source_results[1].data # source_results[2].data

\* The alignment of the sources the engine was given
Alignment == _align_data_sources(source_results)

\* The frame `al` is `df` reindexed onto `dates`: the rows df has are unchanged,
\* the others are missing in every column
IsReindexed(al, df, dates) ==
    /\ al.index = dates
    /\ al.columns = df.columns
    /\ \A t \in Range(dates) :
          IF t \in Range(df.index) THEN al.val[t] = df.val[t]
          ELSE \A c \in df.columns : IsNaN(al.val[t][c])

\* C24: the aligner returns for every input source its series reindexed onto
\* the ascending union of the timestamps of all sources, absent rows missing and
\* existing values unchanged; with an empty union the alignment is empty.
C24_AlignedOntoSortedUnion ==
    pc \in {"engine", "applied"} =>
        IF AllDates(source_results) = {} THEN Alignment = EmptyDict
        ELSE \A k \in DOMAIN source_results :
                /\ source_results[k].cls \in Range(Alignment.keys)
                /\ IsReindexed(Alignment.at[source_results[k].cls],
                               source_results[k].data,
                               SortedSeq(AllDates(source_results)))

\* C30: the alignment map, the weight map and the source_agreement map each
\* hold exactly one entry per SourceResult, also for two adapters of one class,
\* and the entry of a source holds that source's own series and weight.
C30_OneEntryPerSource ==
    (pc = "applied" /\ ~Raised(result)) =>
        /\ Len(Alignment.keys) = Len(source_results)
        /\ Len(DictKeys(source_results)) = Len(source_results)
        /\ Len(result.source_agreement.keys) = Len(source_results)
        /\ \A k \in DOMAIN source_results :
              LET mine == LastWithName(source_results, source_results[k].cls)
              IN  /\ mine.data = source_results[k].data
                  /\ mine.weight = source_results[k].weight

\* ------------------------------------------- claims on the adapter loop (2)
Invalid(r) == ~r.validation_result.is_valid /\ ~IsEmptyDF(r.data)

\* C25: a source whose validation reports is_valid = false but whose series is
\* not empty is in the SourceResults, counts toward min_sources (the call is not
\* sent to the fallback) and toward metadata.sources_used, and the consensus is
\* computed with it.
C25_InvalidSourceIncluded ==
    Returned =>
        /\ \A a \in DOMAIN log :
              log[a] = "appended" =>
                  \E k \in DOMAIN source_results : source_results[k].adapter = a
        /\ (/\ Len(source_results) >= validator.min_sources
            /\ \E k \in DOMAIN source_results : Invalid(source_results[k])) =>
               /\ "fallback" \notin DOMAIN result.metadata
               /\ "sources_used" \in DOMAIN result.metadata
               /\ result.metadata.sources_used = Len(source_results)
               /\ \A k \in DOMAIN source_results :
                     source_results[k].cls \in Range(result.source_agreement.keys)

\* C26: within one call each adapter is fetched from at most once: what the
\* loop recorded for an adapter (unavailable, raised, empty response, series)
\* is never replaced until the next call starts, and the loop has moved past it.
C26_NoRetry ==
    [][\A a \in DOMAIN log :
          log[a] # "pending" =>
              /\ a < i
              /\ \/ log'[a] = log[a] /\ i' >= i
                 \/ pc = "returned" /\ pc' = "loop" /\ i' = 1]_vars

C26_Witness ==
    /\ Returned
    /\ log = <<"fetched_failed", "fetched_empty", "appended">>
    /\ Len(source_results) = 1
    /\ i = 4

\* ------------------------------------------- claims on the order of sources
\* What the engine returns for the sources srs under the validator v
EngineResult(v, srs) ==
    LET consensus_data == ApplyMethod(v.consensus_method, _align_data_sources(srs), srs)
    IN  IF Raised(consensus_data) THEN consensus_data
        ELSE AssembleResult(v, srs, consensus_data)

\* The sources in the order p, each at its new position
Reordered(srs, p) == [k \in DOMAIN srs |-> [srs[p[k]] EXCEPT !.adapter = k]]

\* Two results agree on the consensus series, the confidence, the
\* source_agreement map and the set of anomalies
SameOutcome(a, b) ==
    IF Raised(a) \/ Raised(b) THEN a = b
    ELSE /\ a.consensus_data = b.consensus_data
         /\ a.confidence_score = b.confidence_score
         /\ Range(a.source_agreement.keys) = Range(b.source_agreement.keys)
         /\ \A k \in Range(a.source_agreement.keys) :
               a.source_agreement.at[k] = b.source_agreement.at[k]
         /\ Range(a.anomalies) = Range(b.anomalies)

C28_EventuallyReturns == (pc = "loop") ~> (pc = "returned")

\* ------------------------------------------------ claims on the frame
\* C29: a call leaves the validator's adapters, consensus_method,
\* anomaly_threshold and min_sources and the series the adapters returned
\* unchanged, and a later call starts from nothing of an earlier one: it begins
\* with no SourceResult and its result is computed from its own SourceResults.
C29_CallsShareNothing ==
    [][/\ validator' = validator
       /\ pc' = "loop" =>
             \/ pc \in {"idle", "returned"} /\ source_results' = <<>> /\ result' = NoResult
             \/ /\ pc = "loop"
                /\ Len(source_results') >= Len(source_results)
                /\ SubSeq(source_results', 1, Len(source_results)) = source_results
       /\ pc' = "returned" =>
             /\ source_results' = source_results
             /\ result' = OuterExcept(AfterFetch(validator, source_results))]_vars

C29_Witness ==
    /\ Returned
    /\ validator = NewValidator(<<"AlphaVantageAdapter", "YFinanceAdapter">>, "median")
    /\ log = <<"appended", "unavailable">>
    /\ result.consensus_data = source_results[1].data
    /\ result.consensus_data \in FetchPool

====
